---------------------------- MODULE Spec2Model ----------------------------
(***************************************************************************)
(* Model of the Products-Cleaner-API field normalisers (src/utils.py) and  *)
(* of the two product endpoints that compose them (src/main.py).           *)
(*                                                                         *)
(* A Python str is a sequence of one-character strings.  A Python float    *)
(* is a record [k, n, d]: k = "fin" is the rational n/d, k = "inf" is      *)
(* +infinity, k = "nan" is not-a-number, k = "none" is Python's None.      *)
(* Rounding of finite doubles is not modelled: finite values are exact.    *)
(***************************************************************************)
EXTENDS Integers, Sequences, FiniteSets, TLC

VARIABLES op, pc, arg, ret, request, idx, cleaned_products

vars == <<op, pc, arg, ret, request, idx, cleaned_products>>

-----------------------------------------------------------------------------
(* Bounds of the model.                                                    *)

MaxSlugLen == 5
MaxTitleLen == 5
MaxPriceLen == 6
MaxRatingFrags == 5
MaxLongRatingFrags == 4
MaxTagFrags == 6
MaxProducts == 2

-----------------------------------------------------------------------------
(* Characters and character classes, as Python's re and str see them.      *)

LowerLetters == <<"a","b","c","d","e","f","g","h","i","j","k","l","m",
                  "n","o","p","q","r","s","t","u","v","w","x","y","z">>

UpperLetters == <<"A","B","C","D","E","F","G","H","I","J","K","L","M",
                  "N","O","P","Q","R","S","T","U","V","W","X","Y","Z">>

\* "#" stands for a block of 400 decimal digits, a 1 followed by 399 zeros:
\* the shortest kind of numeral whose value float() cannot hold.  Every
\* operation below treats it as the digits it stands for.
HugeDigits == "#"

\* \d of the re module
Digits == {"0","1","2","3","4","5","6","7","8","9", HugeDigits}

\* \s of the re module, and the whitespace of str.strip() and str.split()
Spaces == {" ", "\t", "\n", "\r"}

Range(f) == {f[k] : k \in DOMAIN f}

\* str.lower() on one character
LowerChar(c) ==
    IF c \in Range(UpperLetters)
    THEN LowerLetters[CHOOSE k \in DOMAIN UpperLetters : UpperLetters[k] = c]
    ELSE c

\* str.upper() on one character
UpperChar(c) ==
    IF c \in Range(LowerLetters)
    THEN UpperLetters[CHOOSE k \in DOMAIN LowerLetters : LowerLetters[k] = c]
    ELSE c

\* str.lower()
StrLower(s) == [k \in DOMAIN s |-> LowerChar(s[k])]

\* the class [a-z0-9]
SlugAlnum == Range(LowerLetters) \cup Digits

\* re.sub(r'[^...]', '', s): delete every character outside the class Keep
RECURSIVE DeleteOutside(_, _)
DeleteOutside(s, Keep) ==
    IF s = <<>> THEN <<>>
    ELSE (IF Head(s) \in Keep THEN <<Head(s)>> ELSE <<>>)
         \o DeleteOutside(Tail(s), Keep)

\* re.sub(r'C+', repl, s): every maximal run of characters of the class C
\* becomes the one string repl
RECURSIVE SubRuns(_, _, _)
SubRuns(s, C, repl) ==
    IF s = <<>> THEN <<>>
    ELSE IF Head(s) \in C
         THEN IF Len(s) > 1 /\ s[2] \in C
              THEN SubRuns(Tail(s), C, repl)
              ELSE repl \o SubRuns(Tail(s), C, repl)
         ELSE <<Head(s)>> \o SubRuns(Tail(s), C, repl)

\* str.strip(chars), str.strip(): drop the leading and the trailing
\* characters of the class C
RECURSIVE LStrip(_, _)
LStrip(s, C) ==
    IF s # <<>> /\ Head(s) \in C THEN LStrip(Tail(s), C) ELSE s

RECURSIVE RStrip(_, _)
RStrip(s, C) ==
    IF s # <<>> /\ s[Len(s)] \in C
    THEN RStrip(SubSeq(s, 1, Len(s) - 1), C)
    ELSE s

StrStrip(s, C) == RStrip(LStrip(s, C), C)

\* All strings of at most n characters over an alphabet
Strings(Alphabet, n) == UNION {[1..k -> Alphabet] : k \in 0..n}

\* Concatenation of a sequence of strings
RECURSIVE Flatten(_)
Flatten(ss) == IF ss = <<>> THEN <<>> ELSE Head(ss) \o Flatten(Tail(ss))

\* The first whitespace-free word of s (s starts with a non-space character)
RECURSIVE FirstWord(_)
FirstWord(s) ==
    IF s = <<>> \/ Head(s) \in Spaces THEN <<>>
    ELSE <<Head(s)>> \o FirstWord(Tail(s))

\* str.split(): the maximal runs of non-whitespace characters, in order
RECURSIVE StrSplit(_)
StrSplit(s) ==
    IF s = <<>> THEN <<>>
    ELSE IF Head(s) \in Spaces THEN StrSplit(Tail(s))
    ELSE LET w == FirstWord(s)
         IN  <<w>> \o StrSplit(SubSeq(s, Len(w) + 1, Len(s)))

-----------------------------------------------------------------------------
(* make_slug                                                               *)

\* the class [a-z0-9-]
SlugChars == SlugAlnum \cup {"-"}

\* A slip in the order of the two substitutions: hyphen runs are
\* collapsed before the other characters are deleted.
SlugCollapseThenDelete(s) ==
    DeleteOutside(SubRuns(s, {"-"}, <<"-">>), SlugChars)

\* slug = re.sub(r'[^a-z0-9-]', '', slug); slug = re.sub(r'-+', '-', slug)
SlugDeleteThenCollapse(s) ==
    SubRuns(DeleteOutside(s, SlugChars), {"-"}, <<"-">>)

\* A slip in the order of the steps: the hyphens are stripped first.
MakeSlugStripFirst(title) ==
    IF title = <<>> THEN <<>>
    ELSE LET lowered  == StrLower(title)
             hyphened == SubRuns(lowered, Spaces, <<"-">>)
         IN  SlugDeleteThenCollapse(StrStrip(hyphened, {"-"}))

make_slug(title) ==
    IF title = <<>> THEN <<>>
    ELSE LET lowered  == StrLower(title)
             hyphened == SubRuns(lowered, Spaces, <<"-">>)
         IN  StrStrip(SlugDeleteThenCollapse(hyphened), {"-"})

SlugAlphabet == {"a", "B", "1", " ", "-", "!"}

InitSlug ==
    /\ op = "make_slug"
    /\ pc = "called"
    /\ arg \in Strings(SlugAlphabet, MaxSlugLen)
    /\ ret = <<>>
    /\ request = <<>>
    /\ idx = 0
    /\ cleaned_products = <<>>

CallMakeSlug ==
    /\ op = "make_slug"
    /\ pc = "called"
    /\ ret' = make_slug(arg)
    /\ pc' = "returned"
    /\ UNCHANGED <<op, arg, request, idx, cleaned_products>>

SpecSlug == InitSlug /\ [][CallMakeSlug]_vars

\* s matches ^[a-z0-9]+(-[a-z0-9]+)*$
MatchesSlugPattern(s) ==
    /\ s # <<>>
    /\ \A k \in DOMAIN s : s[k] \in SlugAlnum \/ s[k] = "-"
    /\ s[1] # "-"
    /\ s[Len(s)] # "-"
    /\ \A k \in 1..(Len(s) - 1) : ~(s[k] = "-" /\ s[k + 1] = "-")

\* C6: whatever the input, the slug make_slug returns is empty or matches
\* ^[a-z0-9]+(-[a-z0-9]+)*$ (lowercase letters, digits, single hyphens, no
\* hyphen first or last), also when deleting a character brings two hyphens
\* together.
C6_SlugWellFormed ==
    (op = "make_slug" /\ pc = "returned")
        => (ret = <<>> \/ MatchesSlugPattern(ret))

\* make_slug has returned for "a ! a", where deleting "!" leaves "a--a"
C6_Witness ==
    /\ op = "make_slug"
    /\ pc = "returned"
    /\ arg = <<"a", " ", "!", " ", "a">>
    /\ ret = <<"a", "-", "a">>

\* C7: make_slug is idempotent: the slug of a returned slug is that slug.
C7_SlugIdempotent ==
    (op = "make_slug" /\ pc = "returned") => make_slug(ret) = ret

\* make_slug has returned a non-empty slug that differs from its input
C7_Witness ==
    /\ op = "make_slug"
    /\ pc = "returned"
    /\ ret # <<>>
    /\ ret # arg
    /\ \E k \in DOMAIN arg : arg[k] \in {"B", " ", "!"}

-----------------------------------------------------------------------------
(* clean_title                                                             *)

Letters == Range(LowerLetters) \cup Range(UpperLetters)

\* str.title(): a cased character is upper-cased unless the character
\* before it is cased, and then it is lower-cased
StrTitle(s) ==
    [k \in DOMAIN s |->
        IF k > 1 /\ s[k - 1] \in Letters
        THEN LowerChar(s[k])
        ELSE UpperChar(s[k])]

clean_title(raw_title) ==
    IF raw_title = <<>> THEN <<>>
    ELSE LET stripped  == StrStrip(raw_title, Spaces)
             collapsed == SubRuns(stripped, Spaces, <<" ">>)
         IN  StrTitle(collapsed)

TitleAlphabet == {"a", "B", "5", "'", " ", "\t"}

InitTitle ==
    /\ op = "clean_title"
    /\ pc = "called"
    /\ arg \in Strings(TitleAlphabet, MaxTitleLen)
    /\ ret = <<>>
    /\ request = <<>>
    /\ idx = 0
    /\ cleaned_products = <<>>

\* POST /clean/title
CallCleanTitle ==
    /\ op = "clean_title"
    /\ pc = "called"
    /\ ret' = clean_title(arg)
    /\ pc' = "returned"
    /\ UNCHANGED <<op, arg, request, idx, cleaned_products>>

SpecTitle == InitTitle /\ [][CallCleanTitle]_vars

\* The word w with its first letter upper-cased and every other letter
\* lower-cased
CapitalisedWord(w) ==
    LET letterAt == {k \in DOMAIN w : w[k] \in Letters}
    IN  [k \in DOMAIN w |->
            IF k \in letterAt /\ \A j \in letterAt : k <= j
            THEN UpperChar(w[k])
            ELSE LowerChar(w[k])]

\* The words joined by single spaces
RECURSIVE JoinBySpace(_)
JoinBySpace(ws) ==
    IF ws = <<>> THEN <<>>
    ELSE IF Len(ws) = 1 THEN Head(ws)
    ELSE Head(ws) \o <<" ">> \o JoinBySpace(Tail(ws))

\* C9: clean_title(s) is the whitespace-separated words of s joined by
\* single spaces, each word with only its first letter upper-cased and every
\* other letter lower-cased, also in a word with a non-letter between
\* letters; the empty input gives the empty output.
C9_TitleWordsCapitalised ==
    (op = "clean_title" /\ pc = "returned")
        => LET ws == StrSplit(arg)
           IN  ret = JoinBySpace([k \in DOMAIN ws |-> CapitalisedWord(ws[k])])

\* What does hold of every title: no leading, trailing or doubled space,
\* and the empty input gives the empty output.
TitleSpacing ==
    (op = "clean_title" /\ pc = "returned")
        => /\ arg = <<>> => ret = <<>>
           /\ \A k \in DOMAIN ret : ret[k] \in Spaces => ret[k] = " "
           /\ ret # <<>> => ret[1] # " " /\ ret[Len(ret)] # " "
           /\ \A k \in 1..(Len(ret) - 1) : ~(ret[k] = " " /\ ret[k + 1] = " ")

-----------------------------------------------------------------------------
(* extract_tags                                                            *)

STOPWORDS ==
    { <<"t","h","e">>, <<"a","n","d">>, <<"o","r">>, <<"b","u","t">>,
      <<"i","n">>, <<"o","n">>, <<"a","t">>, <<"t","o">>, <<"f","o","r">>,
      <<"o","f">>, <<"w","i","t","h">>, <<"a">>, <<"a","n">>, <<"i","s">>,
      <<"i","t">>, <<"t","h","i","s">>, <<"t","h","a","t">> }

\* clean_word = re.sub(r'[^a-z0-9]', '', word)
CleanWord(word) == DeleteOutside(word, SlugAlnum)

\* A slip: the stopword test looks at the word before it is cleaned.
KeepsRawWord(word) == CleanWord(word) # <<>> /\ word \notin STOPWORDS

\* if clean_word and clean_word not in STOPWORDS
KeepsWord(word) == CleanWord(word) # <<>> /\ CleanWord(word) \notin STOPWORDS

\* the first loop: the cleaned words that are kept, in order
RECURSIVE CollectTags(_)
CollectTags(words) ==
    IF words = <<>> THEN <<>>
    ELSE (IF KeepsWord(Head(words)) THEN <<CleanWord(Head(words))>> ELSE <<>>)
         \o CollectTags(Tail(words))

\* the second loop: drop every tag already seen
RECURSIVE UniqueTags(_, _)
UniqueTags(tags, seen) ==
    IF tags = <<>> THEN <<>>
    ELSE IF Head(tags) \in seen
         THEN UniqueTags(Tail(tags), seen)
         ELSE <<Head(tags)>> \o UniqueTags(Tail(tags), seen \cup {Head(tags)})

extract_tags(title) ==
    IF title = <<>> THEN <<>>
    ELSE UniqueTags(CollectTags(StrSplit(StrLower(title))), {})

TagFragments ==
    { <<"T","h","e",".">>, <<"a">>, <<"n">>, <<".">>, <<" ">> }

InitTags ==
    /\ op = "extract_tags"
    /\ pc = "called"
    /\ arg \in {Flatten(fs) : fs \in Strings(TagFragments, MaxTagFrags)}
    /\ ret = <<>>
    /\ request = <<>>
    /\ idx = 0
    /\ cleaned_products = <<>>

CallExtractTags ==
    /\ op = "extract_tags"
    /\ pc = "called"
    /\ ret' = extract_tags(arg)
    /\ pc' = "returned"
    /\ UNCHANGED <<op, arg, request, idx, cleaned_products>>

SpecTags == InitTags /\ [][CallExtractTags]_vars

\* The place of the first occurrence of w in the sequence ws
FirstPlace(ws, w) == CHOOSE k \in DOMAIN ws : ws[k] = w /\ \A j \in 1..(k - 1) : ws[j] # w

\* The title's words, lower-cased, each with its non-[a-z0-9] characters
\* stripped
StrippedWords(title) ==
    LET ws == StrSplit(StrLower(title))
    IN  [k \in DOMAIN ws |-> SelectSeq(ws[k], LAMBDA c : c \in SlugAlnum)]

\* C8: the tags extract_tags returns hold no duplicate, no empty entry and
\* no stopword; they are exactly the stripped words of the title that are
\* neither empty nor stopwords, in the order of their first occurrence (the
\* tests apply to the word after stripping).
C8_TagsUniqueOrdered ==
    (op = "extract_tags" /\ pc = "returned")
        => LET ws == StrippedWords(arg)
           IN  /\ \A i, j \in DOMAIN ret : i # j => ret[i] # ret[j]
               /\ \A i \in DOMAIN ret : ret[i] # <<>> /\ ret[i] \notin STOPWORDS
               /\ Range(ret) = {w \in Range(ws) : w # <<>> /\ w \notin STOPWORDS}
               /\ \A i, j \in DOMAIN ret :
                      i < j => FirstPlace(ws, ret[i]) < FirstPlace(ws, ret[j])

\* extract_tags has returned for "The. n. n": a stopword with a period, and
\* two words that are the same once stripped
C8_Witness ==
    /\ op = "extract_tags"
    /\ pc = "returned"
    /\ arg = <<"T","h","e","."," ","n","."," ","n">>
    /\ ret = << <<"n">> >>

-----------------------------------------------------------------------------
(* Python floats                                                           *)

None == [k |-> "none", n |-> 0, d |-> 1]

\* the exception float() raises, as a value
ValueError == [k |-> "ValueError", n |-> 0, d |-> 1]

Inf == [k |-> "inf", n |-> 0, d |-> 1]

NaN == [k |-> "nan", n |-> 0, d |-> 1]

Fin(n, d) == [k |-> "fin", n |-> n, d |-> d]

DecimalDigits == <<"0","1","2","3","4","5","6","7","8","9">>

DigitValue(c) == (CHOOSE v \in DOMAIN DecimalDigits : DecimalDigits[v] = c) - 1

\* The number a string of decimal digits denotes
RECURSIVE DigitsValue(_)
DigitsValue(ds) ==
    IF ds = <<>> THEN 0
    ELSE DigitsValue(SubSeq(ds, 1, Len(ds) - 1)) * 10 + DigitValue(ds[Len(ds)])

RECURSIVE Pow10(_)
Pow10(e) == IF e = 0 THEN 1 ELSE 10 * Pow10(e - 1)

\* The longest prefix of s made of digits
RECURSIVE LeadingDigits(_)
LeadingDigits(s) ==
    IF s = <<>> \/ Head(s) \notin Digits THEN <<>>
    ELSE <<Head(s)>> \o LeadingDigits(Tail(s))

\* The fraction digits float() can tell apart: a block of 400 digits is a 1
\* followed by zeros, and whatever follows it is below a double's precision
RECURSIVE SignificantFraction(_)
SignificantFraction(ds) ==
    IF ds = <<>> THEN <<>>
    ELSE IF Head(ds) = HugeDigits THEN <<"1">>
    ELSE <<Head(ds)>> \o SignificantFraction(Tail(ds))

\* float(s) for a string s of digits and periods (all that parse_price and
\* parse_rating pass): digits, at most one period, digits, with a digit
\* somewhere; anything else raises ValueError.  An integer part of 400
\* digits or more is beyond the largest double and gives inf.
PyFloat(s) ==
    LET int  == LeadingDigits(s)
        rest == SubSeq(s, Len(int) + 1, Len(s))
        frac == IF rest # <<>> /\ Head(rest) = "." THEN LeadingDigits(Tail(rest)) ELSE <<>>
        used == Len(int) + (IF rest # <<>> /\ Head(rest) = "." THEN 1 + Len(frac) ELSE 0)
    IN  IF used # Len(s) \/ (int = <<>> /\ frac = <<>>) THEN ValueError
        ELSE IF \E k \in DOMAIN int : int[k] = HugeDigits THEN Inf
        ELSE LET f == SignificantFraction(frac)
             IN  Fin(DigitsValue(int) * Pow10(Len(f)) + DigitsValue(f), Pow10(Len(f)))

\* The except clause is missing: the ValueError reaches the caller.
Uncaught(r) == r

\* except (ValueError, AttributeError): return None
CatchValueError(r) == IF r.k = "ValueError" THEN None ELSE r

-----------------------------------------------------------------------------
(* parse_price                                                             *)

\* the class [\d.]
NumeralChars == Digits \cup {"."}

parse_price(price_str) ==
    IF price_str = <<>> THEN None
    ELSE LET cleaned == DeleteOutside(price_str, NumeralChars)
         IN  CatchValueError(IF cleaned = <<>> THEN None ELSE PyFloat(cleaned))

PriceAlphabet == {"0", "2", ".", ",", "-"}

InitPrice ==
    /\ op = "parse_price"
    /\ pc = "called"
    /\ arg \in Strings(PriceAlphabet, MaxPriceLen)
    /\ ret = None
    /\ request = <<>>
    /\ idx = 0
    /\ cleaned_products = <<>>

CallParsePrice ==
    /\ op = "parse_price"
    /\ pc = "called"
    /\ ret' = parse_price(arg)
    /\ pc' = "returned"
    /\ UNCHANGED <<op, arg, request, idx, cleaned_products>>

SpecPrice == InitPrice /\ [][CallParsePrice]_vars

\* C5: parse_price is the reference: keep the digits and periods of the
\* input, in order; if nothing is left or what is left is no decimal numeral
\* (no digit, or more than one period) the price is absent, otherwise it is
\* the numeral's value.  So a present price is never negative and no input
\* raises.
C5_PriceIsReference ==
    (op = "parse_price" /\ pc = "returned")
        => LET kept    == SelectSeq(arg, LAMBDA c : c \in Range(DecimalDigits) \/ c = ".")
               digits  == SelectSeq(kept, LAMBDA c : c # ".")
               periods == {k \in DOMAIN kept : kept[k] = "."}
               after   == IF periods = {} THEN 0
                          ELSE Len(kept) - (CHOOSE k \in periods : TRUE)
           IN  IF digits = <<>> \/ Cardinality(periods) > 1
               THEN ret = None
               ELSE /\ ret.k = "fin"
                    /\ ret.n = DigitsValue(digits) /\ ret.d = Pow10(after)
                    /\ ret.n >= 0 /\ ret.d > 0

\* parse_price has returned for "-2.2.0": a sign to strip, and two periods
C5_Witness ==
    /\ op = "parse_price"
    /\ pc = "returned"
    /\ arg = <<"-", "2", ".", "2", ".", "0">>
    /\ ret = None

-----------------------------------------------------------------------------
(* parse_rating                                                            *)

Zero == Fin(0, 1)

Five == Fin(5, 1)

\* x < y on floats: every comparison with nan is false
FloatLess(x, y) ==
    /\ x.k = "fin"
    /\ y.k \in {"fin", "inf"}
    /\ y.k = "fin" => x.n * y.d < y.n * x.d

\* max(a, b) and min(a, b) of Python: the first argument, unless the second
\* compares greater (smaller)
PyMax(a, b) == IF FloatLess(a, b) THEN b ELSE a

PyMin(a, b) == IF FloatLess(b, a) THEN b ELSE a

\* min(max(rating, 0.0), 5.0)
Clamp(rating) == PyMin(PyMax(rating, Zero), Five)

\* numerator / denominator, for a denominator > 0
FloatDivide(x, y) ==
    IF x.k = "fin" /\ y.k = "fin" THEN Fin(x.n * y.d, x.d * y.n)
    ELSE IF x.k = "fin" THEN Zero
    ELSE IF y.k = "fin" THEN Inf
    ELSE NaN

\* x * 5.0
TimesFive(x) == IF x.k = "fin" THEN Fin(5 * x.n, x.d) ELSE x

\* The place after the maximal run of characters of class C that starts at i
RECURSIVE RunEnd(_, _, _)
RunEnd(s, i, C) ==
    IF i <= Len(s) /\ s[i] \in C THEN RunEnd(s, i + 1, C) ELSE i

\* The literal lit at place i of s, letter case ignored
LiteralAt(s, i, lit) ==
    /\ i + Len(lit) - 1 <= Len(s)
    /\ \A k \in DOMAIN lit : LowerChar(s[i + k - 1]) = lit[k]

\* \s*out\s*of\s*[\d.]+ (re.IGNORECASE) matches at place e of s
OutOfTail(s, e) ==
    \E a \in e..RunEnd(s, e, Spaces) :
        /\ LiteralAt(s, a, <<"o","u","t">>)
        /\ \E b \in (a + 3)..RunEnd(s, a + 3, Spaces) :
               /\ LiteralAt(s, b, <<"o","f">>)
               /\ \E c \in (b + 2)..RunEnd(s, b + 2, Spaces) :
                      c <= Len(s) /\ s[c] \in NumeralChars

\* The places where \s*/\s*([\d.]+) matches at place e of s put group 2
SlashTail(s, e) ==
    {c \in 1..Len(s) :
        \E a \in e..RunEnd(s, e, Spaces) :
            /\ LiteralAt(s, a, <<"/">>)
            /\ c \in (a + 1)..RunEnd(s, a + 1, Spaces)
            /\ s[c] \in NumeralChars}

SetMin(S) == CHOOSE x \in S : \A y \in S : x <= y

SetMax(S) == CHOOSE x \in S : \A y \in S : x >= y

\* re.search(r'([\d.]+)\s*out\s*of\s*[\d.]+', s, re.IGNORECASE): the
\* leftmost place where a match starts, with the longest group 1 that lets
\* the rest match; <<>> for no match, else <<group 1>>
SearchOutOf(s) ==
    LET ends(i) == {e \in (i + 1)..RunEnd(s, i, NumeralChars) : OutOfTail(s, e)}
        starts  == {i \in 1..Len(s) : ends(i) # {}}
    IN  IF starts = {} THEN <<>>
        ELSE LET i == SetMin(starts)
             IN  <<SubSeq(s, i, SetMax(ends(i)) - 1)>>

\* re.search(r'([\d.]+)\s*/\s*([\d.]+)', s): <<>> for no match, else
\* <<group 1, group 2>>
SearchSlash(s) ==
    LET ends(i) == {e \in (i + 1)..RunEnd(s, i, NumeralChars) : SlashTail(s, e) # {}}
        starts  == {i \in 1..Len(s) : ends(i) # {}}
    IN  IF starts = {} THEN <<>>
        ELSE LET i == SetMin(starts)
                 e == SetMax(ends(i))
                 c == SetMax(SlashTail(s, e))
             IN  <<SubSeq(s, i, e - 1),
                   SubSeq(s, c, RunEnd(s, c, NumeralChars) - 1)>>

\* re.search(r'[\d.]+', s): <<>> for no match, else <<group 0>>
SearchNumber(s) ==
    LET starts == {i \in 1..Len(s) : s[i] \in NumeralChars}
    IN  IF starts = {} THEN <<>>
        ELSE LET i == SetMin(starts)
             IN  <<SubSeq(s, i, RunEnd(s, i, NumeralChars) - 1)>>

\* rating = float(text); return min(max(rating, 0.0), 5.0)
ClampedFloat(text) ==
    LET rating == PyFloat(text)
    IN  IF rating = ValueError THEN ValueError ELSE Clamp(rating)

\* "Try to extract just a number" and the final return None
RatingFromNumber(rating_str) ==
    LET match == SearchNumber(rating_str)
    IN  IF match # <<>> THEN ClampedFloat(match[1]) ELSE None

\* "Try to match X/Y format", falling through when the denominator is not > 0
RatingFromSlash(rating_str) ==
    LET match == SearchSlash(rating_str)
    IN  IF match = <<>> THEN RatingFromNumber(rating_str)
        ELSE LET numerator   == PyFloat(match[1])
                 denominator == PyFloat(match[2])
             IN  IF numerator = ValueError \/ denominator = ValueError
                 THEN ValueError
                 ELSE IF FloatLess(Zero, denominator)
                 THEN Clamp(TimesFive(FloatDivide(numerator, denominator)))
                 ELSE RatingFromNumber(rating_str)

parse_rating(rating_str) ==
    IF rating_str = <<>> THEN None
    ELSE LET match == SearchOutOf(rating_str)
         IN  CatchValueError(IF match # <<>>
                             THEN ClampedFloat(match[1])
                             ELSE RatingFromSlash(rating_str))

RatingFragments ==
    { <<"0">>, <<"4">>, <<"9">>, <<".">>, <<"/">>, <<" ">>,
      <<"o","u","t"," ","O","F">> }

InitRating ==
    /\ op = "parse_rating"
    /\ pc = "called"
    /\ arg \in {Flatten(fs) : fs \in Strings(RatingFragments, MaxRatingFrags)}
    /\ ret = None
    /\ request = <<>>
    /\ idx = 0
    /\ cleaned_products = <<>>

\* Ratings that hold numerals of 400 digits and more
LongRatingFragments ==
    { <<"0">>, <<"4">>, <<".">>, <<"/">>, <<" ">>, <<HugeDigits>> }

InitLongRating ==
    /\ op = "parse_rating"
    /\ pc = "called"
    /\ arg \in {Flatten(fs) : fs \in Strings(LongRatingFragments, MaxLongRatingFrags)}
    /\ ret = None
    /\ request = <<>>
    /\ idx = 0
    /\ cleaned_products = <<>>

CallParseRating ==
    /\ op = "parse_rating"
    /\ pc = "called"
    /\ ret' = parse_rating(arg)
    /\ pc' = "returned"
    /\ UNCHANGED <<op, arg, request, idx, cleaned_products>>

SpecRating == InitRating /\ [][CallParseRating]_vars

SpecLongRating == InitLongRating /\ [][CallParseRating]_vars

\* t is a decimal numeral: digits with at most one period among them
IsNumeral(t) ==
    /\ \A k \in DOMAIN t : t[k] \in NumeralChars
    /\ \E k \in DOMAIN t : t[k] \in Digits
    /\ Cardinality({k \in DOMAIN t : t[k] = "."}) <= 1

\* The places of s where a maximal run of digits and periods starts
RunStarts(s) ==
    {i \in 1..Len(s) : s[i] \in NumeralChars /\ (i = 1 \/ s[i - 1] \notin NumeralChars)}

RunAt(s, i) == SubSeq(s, i, RunEnd(s, i, NumeralChars) - 1)

\* The places of s where a numeral starts
NumeralStarts(s) == {i \in RunStarts(s) : IsNumeral(RunAt(s, i))}

\* The places of s where "<number> out of <number>" starts: two numerals
\* with only the words "out" and "of" (in any letter case) and whitespace
\* between them
OutOfStarts(s) ==
    {i \in NumeralStarts(s) :
        \E c \in NumeralStarts(s) :
            /\ c > i
            /\ StrSplit(StrLower(SubSeq(s, RunEnd(s, i, NumeralChars), c - 1)))
                   = << <<"o","u","t">>, <<"o","f">> >>}

\* C1: parse_rating returns None or a number r with 0 <= r <= 5.
C1_RatingInRange ==
    (op = "parse_rating" /\ pc = "returned")
        => \/ ret = None
           \/ ret.k = "fin" /\ 0 <= ret.n /\ ret.n <= 5 * ret.d

\* C2: when neither the "X out of Y" nor the "X/Y" rule applies,
\* parse_rating returns the first numeral of the string, clamped to [0,5];
\* and it returns None only for a string with no numeral at all, so that any
\* input containing a decimal digit gives a rating.
C2_FallbackFirstNumeral ==
    (op = "parse_rating" /\ pc = "returned")
        => /\ ret = None => \A k \in DOMAIN arg : arg[k] \notin Digits
           /\ (SearchOutOf(arg) = <<>> /\ SearchSlash(arg) = <<>>
                   /\ NumeralStarts(arg) # {})
                  => ret = Clamp(PyFloat(RunAt(arg, SetMin(NumeralStarts(arg)))))

\* C3: with no "X out of Y" match and an "X / Y" in the input: for Y > 0
\* the rating is (X/Y)*5 clamped to [0,5]; for Y = 0 the slash rule is
\* skipped and the rating is the first numeral of the string clamped to
\* [0,5], not None.
C3_SlashRule ==
    (/\ op = "parse_rating" /\ pc = "returned"
     /\ SearchOutOf(arg) = <<>>
     /\ SearchSlash(arg) # <<>>
     /\ IsNumeral(SearchSlash(arg)[1])
     /\ IsNumeral(SearchSlash(arg)[2]))
        => LET X == PyFloat(SearchSlash(arg)[1])
               Y == PyFloat(SearchSlash(arg)[2])
           IN  IF Y.k = "inf" \/ Y.n > 0
               THEN /\ ret.k = "fin" /\ 0 <= ret.n /\ ret.n <= 5 * ret.d
                    /\ (X.k = "fin" /\ Y.k = "fin") =>
                         IF X.n * Y.d > X.d * Y.n
                         THEN ret.n = 5 * ret.d
                         ELSE ret.n * (X.d * Y.n) = (5 * X.n * Y.d) * ret.d
               ELSE /\ ret # None
                    /\ ret = Clamp(PyFloat(RunAt(arg, SetMin(NumeralStarts(arg)))))

\* C4: for an input containing "<number> out of <number>" (any letter case,
\* any whitespace around "out of"), parse_rating returns the first number of
\* that pattern clamped to [0,5], whatever the second number and whatever
\* comes before the pattern.
C4_OutOfFirst ==
    (op = "parse_rating" /\ pc = "returned" /\ OutOfStarts(arg) # {})
        => ret = Clamp(PyFloat(RunAt(arg, SetMin(OutOfStarts(arg)))))

-----------------------------------------------------------------------------
(* The product endpoints of src/main.py                                    *)

\* POST /clean/product
clean_product(product) ==
    LET title_cleaned == clean_title(product.title)
    IN  [ title_clean  |-> title_cleaned,
          price_value  |-> parse_price(product.price),
          rating_value |-> parse_rating(product.rating),
          slug         |-> make_slug(title_cleaned),
          tags         |-> extract_tags(title_cleaned) ]

\* A slip in the copied loop body: the price is parsed from the rating.
BulkItemPriceFromRating(product) ==
    LET title_cleaned == clean_title(product.title)
        price_val     == parse_price(product.rating)
        rating_val    == parse_rating(product.rating)
        slug          == make_slug(title_cleaned)
        tags          == extract_tags(title_cleaned)
    IN  [ title_clean  |-> title_cleaned,
          price_value  |-> price_val,
          rating_value |-> rating_val,
          slug         |-> slug,
          tags         |-> tags ]

\* The body of the loop of POST /clean/bulk: the record it appends
BulkItem(product) ==
    LET title_cleaned == clean_title(product.title)
        price_val     == parse_price(product.price)
        rating_val    == parse_rating(product.rating)
        slug          == make_slug(title_cleaned)
        tags          == extract_tags(title_cleaned)
    IN  [ title_clean  |-> title_cleaned,
          price_value  |-> price_val,
          rating_value |-> rating_val,
          slug         |-> slug,
          tags         |-> tags ]

ProductTitles ==
    { <<" ","i","t","'","s"," "," ","a"," ","M","u","g">>,
      <<"M","u","g","-","2"," ","t","h","e"," ","m","u","g">> }

ProductPrices == { <<"$","2",".","5","0">>, <<"2",".","2",".","0">> }

ProductRatings == { <<"4","/","9">>, <<"."," ","4">> }

\* ProductInput
Products ==
    [ title : ProductTitles, price : ProductPrices, rating : ProductRatings,
      category : {<<"K">>} ]

InitBulk ==
    /\ \/ op = "clean_product" /\ request \in [1..1 -> Products]
       \/ op = "clean_bulk_products" /\ request \in Strings(Products, MaxProducts)
    /\ pc = "called"
    /\ arg = <<>>
    /\ ret = <<>>
    /\ idx = 0
    /\ cleaned_products = <<>>

\* POST /clean/product
CallCleanProduct ==
    /\ op = "clean_product"
    /\ pc = "called"
    /\ ret' = clean_product(request[1])
    /\ pc' = "returned"
    /\ UNCHANGED <<op, arg, request, idx, cleaned_products>>

\* POST /clean/bulk: one turn of "for product in request.products"
BulkIterate ==
    /\ op = "clean_bulk_products"
    /\ pc = "called"
    /\ idx < Len(request)
    /\ cleaned_products' = Append(cleaned_products, BulkItem(request[idx + 1]))
    /\ idx' = idx + 1
    /\ UNCHANGED <<op, pc, arg, ret, request>>

\* POST /clean/bulk: return BulkCleanResponse(products=cleaned_products)
BulkReturn ==
    /\ op = "clean_bulk_products"
    /\ pc = "called"
    /\ idx = Len(request)
    /\ ret' = cleaned_products
    /\ pc' = "returned"
    /\ UNCHANGED <<op, arg, request, idx, cleaned_products>>

SpecBulk == InitBulk /\ [][CallCleanProduct \/ BulkIterate \/ BulkReturn]_vars

\* C10: the bulk operation returns as many records as it was given
\* products, and the i-th record is what the single-record operation makes
\* of the i-th product alone.
C10_BulkIsMap ==
    (op = "clean_bulk_products" /\ pc = "returned")
        => /\ Len(ret) = Len(request)
           /\ \A i \in DOMAIN request : ret[i] = clean_product(request[i])

\* The bulk operation has returned for two different products
C10_Witness ==
    /\ op = "clean_bulk_products"
    /\ pc = "returned"
    /\ Len(request) = 2
    /\ request[1].price # request[2].price
    /\ ret[1].price_value # ret[2].price_value
    /\ ret[1].tags = << <<"i","t","s">>, <<"m","u","g">> >>

-----------------------------------------------------------------------------
(* The whole service                                                       *)

Init ==
    \/ InitTitle
    \/ InitPrice
    \/ InitRating
    \/ InitLongRating
    \/ InitSlug
    \/ InitTags
    \/ InitBulk

Next ==
    \/ CallCleanTitle
    \/ CallParsePrice
    \/ CallParseRating
    \/ CallMakeSlug
    \/ CallExtractTags
    \/ CallCleanProduct
    \/ BulkIterate
    \/ BulkReturn

Spec == Init /\ [][Next]_vars

=============================================================================
